---- MODULE Spec2Model ----
(***************************************************************************)
(* Telemetry delivery pipeline of src/msg/msg.py.                          *)
(*                                                                         *)
(*   MsgQueueMgr  the aggregator: one MsgQueue (slot) per configured index, *)
(*                a bounded multiprocessing.Queue shared with the workers.  *)
(*   IoLoop       a transport worker: a periodic tick (__call__) and the    *)
(*                broker's response callback (callback_rec).                *)
(*                                                                         *)
(* The aggregator and every worker are separate processes; a step of the   *)
(* model is what one process does between two points where it can be       *)
(* suspended (a put on a full queue, a get on an empty queue, the return   *)
(* to the worker's event loop).                                            *)
(*                                                                         *)
(* A worker is an IoLoop built with its configuration and run by           *)
(* tornado: ticks and response callbacks run one at a time on the worker's *)
(* single thread, and nothing runs after stop().  The broker answers each  *)
(* publish once, with OK or with a failure, at any later time.             *)
(***************************************************************************)
EXTENDS Bags, Integers, Sequences, FiniteSets, TLC

\* ------------------------------------------------------------------ bounds
\* Samples the instrumentation source emits in one run.
MaxSamples == 3
\* Handshake messages a worker sends before the model stops following it
\* (the code sends one on every tick for as long as shake_flag is set).
MaxShake == 2
\* Capacity of the shared queue (process_qsize).
QSize == 2
\* wrong_limit: publish failures a worker tolerates.
WrongLimit == 1

\* Worker processes forked (process_num), and the batch limits (limit) tried:
\* with two indices, and with one worker and one index.
ProcNums == {1, 2}
Limits == {1, 2, 4}
IoLimits == {1, 3}
\* Configured observation indices (cpoints) and the primary-key values the
\* traced program produces.
Indices == {0, 1}
Keys == {"a", "b"}
\* An index the source emits for which pushing the sample raises (no slot
\* is configured for it).
BadIndices == {2}

VARIABLES
    \* configuration, fixed by Init
    proc_num, var_limit, cpoints, keys,
    \* VarCollector: set when collect() caught an error
    quitting,
    \* MsgQueueMgr
    idx2queue, var_cnt, mgr_msg_cnt, queue,
    \* where the aggregator process is, and what it holds while suspended
    agg_pc, pend_msg, pend_var, eof_left,
    \* IoLoop, one per worker
    shake_flag, wrong_msg_cnt, msg_cnt, ok_cnt, eof_flag, stopped, mutex,
    \* where the worker is inside a tick, and its publishes awaiting a response
    io_pc, inflight,
    \* history (not read by the program)
    emitted, raised, appended, since_clear, replaced, enqueued, shake_sent, ok_recv, dequeued,
    published

cfg_vars == <<proc_num, var_limit, cpoints, keys>>
mgr_vars == <<idx2queue, var_cnt, mgr_msg_cnt, agg_pc, pend_msg, pend_var, eof_left>>
io_vars == <<shake_flag, wrong_msg_cnt, msg_cnt, ok_cnt, eof_flag, stopped, mutex, io_pc, inflight>>
hist_mgr == <<emitted, raised, appended, since_clear, replaced, enqueued>>
hist_io == <<shake_sent, ok_recv, dequeued, published>>
vars == <<cfg_vars, quitting, mgr_vars, queue, io_vars, hist_mgr, hist_io>>

Procs == 1..proc_num
AllProcs == UNION {1..n : n \in ProcNums}

\* ------------------------------------------------------------ pure helpers
Last(s) == s[Len(s)]
Front(s) == SubSeq(s, 1, Len(s) - 1)

\* The 'EOF' element of an end-of-stream report's data list.
EofMark == [eof |-> "EOF"]
NoVar == [none |-> TRUE]
NoKey == "none"
NoMsg == [none |-> TRUE]

\* Msg(**var): index, primary and the payload (event, value), which the
\* pipeline only carries; the payload is the sample's serial number.
Msg(idx, primary, serial) == [idx |-> idx, primary |-> primary, value |-> serial]

\* Msg.get_v
MsgGetV(m) == [primary |-> m.primary, value |-> m.value]

\* MsgQueue.append: push back, filtering on the primary value.
append_keepfirst(q, msg) ==
    IF Len(q) > 0 /\ msg.primary = Last(q).primary THEN q ELSE Append(q, msg)
append_always(q, msg) == Append(q, msg)
append(q, msg) ==
    IF Len(q) > 0 /\ msg.primary = Last(q).primary
    THEN [q EXCEPT ![Len(q)] = msg]
    ELSE Append(q, msg)

\* MsgQueue.get_v (the static metadata is constant and left out).
QueueGetV(i, q) == [index |-> i, value |-> [k \in 1..Len(q) |-> MsgGetV(q[k])]]

\* The indices in the order idx2queue.iteritems() yields them.
RECURSIVE Ascending(_)
Ascending(S) ==
    IF S = {} THEN <<>>
    ELSE LET m == CHOOSE x \in S : \A y \in S : x <= y
         IN <<m>> \o Ascending(S \ {m})

\* _make_common_msg: the report built from the non-empty slots.
NonEmpty(slots) == {i \in DOMAIN slots : Len(slots[i]) > 0}
CommonData_all(slots) ==
    LET order == Ascending(DOMAIN slots)
    IN [k \in 1..Len(order) |-> QueueGetV(order[k], slots[order[k]])]
CommonData(slots) ==
    LET order == Ascending(NonEmpty(slots))
    IN [k \in 1..Len(order) |-> QueueGetV(order[k], slots[order[k]])]
CommonMsg_unnumbered(slots, n) == [index |-> 0, type |-> "varcol_message", data |-> CommonData(slots)]
CommonMsg(slots, n) == [index |-> n, type |-> "varcol_message", data |-> CommonData(slots)]
Cleared_keep(slots) == slots
Cleared(slots) == [i \in DOMAIN slots |-> <<>>]

\* _make_eof_msg
EofMsg(n) == [index |-> n, type |-> "eof_message", data |-> <<EofMark>>]

\* 'EOF' in msg_dict['data']
HasEof(m) == \E k \in 1..Len(m.data) : m.data[k] = EofMark

\* multiprocessing.Queue(maxsize): put blocks while full.
CanPut_unbounded == TRUE
CanPut == Len(queue) < QSize

\* ------------------------------------------------------------------- Init
\* MsgQueueMgr.__init__ (one empty MsgQueue per configured index, the
\* workers forked) and IoLoop.__init__ in every worker.
Start ==
    /\ quitting = FALSE
    /\ raised = 0
    /\ idx2queue = [i \in cpoints |-> <<>>]
    /\ var_cnt = 0
    /\ mgr_msg_cnt = 0
    /\ queue = <<>>
    /\ agg_pc = "ready"
    /\ pend_msg = NoMsg
    /\ pend_var = NoVar
    /\ eof_left = 0
    /\ shake_flag = [w \in AllProcs |-> TRUE]
    /\ wrong_msg_cnt = [w \in AllProcs |-> 0]
    /\ msg_cnt = [w \in AllProcs |-> 0]
    /\ ok_cnt = [w \in AllProcs |-> 0]
    /\ eof_flag = [w \in AllProcs |-> FALSE]
    /\ stopped = [w \in AllProcs |-> FALSE]
    /\ mutex = [w \in AllProcs |-> FALSE]
    /\ io_pc = [w \in AllProcs |-> "loop"]
    /\ inflight = [w \in AllProcs |-> 0]
    /\ emitted = 0
    /\ appended = [i \in cpoints |-> <<>>]
    /\ since_clear = [i \in cpoints |-> <<>>]
    /\ replaced = {}
    /\ enqueued = <<>>
    /\ shake_sent = [w \in AllProcs |-> 0]
    /\ ok_recv = [w \in AllProcs |-> 0]
    /\ dequeued = [w \in AllProcs |-> <<>>]
    /\ published = [w \in AllProcs |-> <<>>]

\* One worker, any batch limit, two indices (one when every sample makes a
\* report), both primary values: the aggregator's cases.
Init ==
    /\ proc_num = 1
    /\ var_limit \in Limits
    /\ cpoints = IF var_limit = 1 THEN {0} ELSE Indices
    /\ keys = Keys
    /\ Start

\* One worker, one index, both primary values; a flush on every sample
\* (the most reports a worker can be given) or on every third.
InitIo ==
    /\ proc_num = 1
    /\ var_limit \in IoLimits
    /\ cpoints = {0}
    /\ keys = Keys
    /\ Start

\* One or two workers sharing the queue, one index, one primary value, and
\* a batch limit that only the last sample of the run reaches.
InitDuo ==
    /\ proc_num \in ProcNums
    /\ var_limit = MaxSamples
    /\ cpoints = {0}
    /\ keys = {"a"}
    /\ Start

\* ------------------------------------------------------------- aggregator
\* The sample a push overwrites: the slot's last one, when its primary
\* value equals the new sample's (history).
Overwritten(q, msg) ==
    IF Len(q) > 0 /\ msg.primary = Last(q).primary THEN {Last(q).value} ELSE {}

\* VarCollector.collect, except: the error is logged and the collector quits.
Caught == TRUE

\* self.idx2queue[one_var.idx].append(one_var), with its history.  With no
\* slot for the index the lookup raises, and the exception reaches
\* VarCollector.collect, which called the aggregator.  The slots start from
\* `slots` (the current ones, or the cleared ones after a flush) and the
\* history since the last clear from `since`.
Push(slots, since, one_var) ==
    IF one_var.idx \in DOMAIN slots
    THEN /\ idx2queue' = [slots EXCEPT ![one_var.idx] = append(slots[one_var.idx], one_var)]
         /\ appended' = [appended EXCEPT ![one_var.idx] = Append(@, one_var)]
         /\ since_clear' = [since EXCEPT ![one_var.idx] = Append(@, one_var)]
         /\ replaced' = replaced \cup Overwritten(slots[one_var.idx], one_var)
         /\ UNCHANGED <<quitting, raised>>
    ELSE /\ idx2queue' = slots
         /\ since_clear' = since
         /\ UNCHANGED replaced
         /\ quitting' = Caught
         /\ raised' = raised + 1
         /\ UNCHANGED appended

\* self.var_cnt == int(self.var_limit)
LimitReached_after(cnt) == cnt > var_limit
LimitReached(cnt) == cnt = var_limit

\* for i in range(self.proc_num): the sentinels stop_subprocess puts.
EofCopies_extra == proc_num + 1
EofCopies == proc_num

\* MsgQueueMgr.__call__ with a sample that is not 'EOF', up to the put of
\* an automatic flush (which may block) or to its end.
Ingest(idx, primary) ==
    /\ idx \in cpoints \cup BadIndices
    /\ ~quitting
    /\ agg_pc = "ready"
    /\ emitted < MaxSamples
    /\ emitted' = emitted + 1
    /\ primary \in keys \cup {NoKey}
    /\ idx \in BadIndices <=> primary = NoKey
    /\ LET one_var == Msg(idx, primary, emitted + 1)
       IN IF LimitReached(var_cnt + 1)
          THEN /\ var_cnt' = var_cnt + 1
               /\ pend_msg' = CommonMsg(idx2queue, mgr_msg_cnt)
               /\ idx2queue' = Cleared(idx2queue)
               /\ since_clear' = Cleared(since_clear)
               /\ mgr_msg_cnt' = mgr_msg_cnt + 1
               /\ pend_var' = one_var
               /\ agg_pc' = "put"
               /\ UNCHANGED <<appended, replaced>>
               /\ UNCHANGED <<quitting, raised>>
          ELSE /\ var_cnt' = var_cnt + 1
               /\ Push(idx2queue, since_clear, one_var)
               /\ UNCHANGED <<pend_msg, pend_var, mgr_msg_cnt, agg_pc>>
    /\ UNCHANGED <<cfg_vars, queue, eof_left, enqueued, io_vars, hist_io>>

\* The rest of that call: _publish_msg returns, the counter is reset and
\* the sample is pushed to its slot.
PutCommon ==
    /\ agg_pc = "put"
    /\ CanPut
    /\ queue' = Append(queue, pend_msg)
    /\ enqueued' = Append(enqueued, pend_msg)
    /\ var_cnt' = 0
    /\ Push(idx2queue, since_clear, pend_var)
    /\ pend_msg' = NoMsg
    /\ pend_var' = NoVar
    /\ agg_pc' = "ready"
    /\ UNCHANGED <<cfg_vars, mgr_msg_cnt, eof_left, emitted, io_vars, hist_io>>

\* An end of the stream without the last report: the sentinel is built at
\* once and the slots keep what they hold.
SignalEOF_noflush ==
    /\ agg_pc = "ready"
    /\ var_cnt' = var_cnt + 1
    /\ pend_msg' = EofMsg(mgr_msg_cnt)
    /\ mgr_msg_cnt' = mgr_msg_cnt + 1
    /\ eof_left' = EofCopies
    /\ agg_pc' = "eof_put"
    /\ UNCHANGED <<cfg_vars, quitting, idx2queue, queue, pend_var, hist_mgr, io_vars, hist_io>>

\* MsgQueueMgr.__call__ with the 'EOF' sample, up to the put of the last
\* report.
SignalEOF ==
    /\ agg_pc = "ready"
    /\ var_cnt' = var_cnt + 1
    /\ pend_msg' = CommonMsg(idx2queue, mgr_msg_cnt)
    /\ idx2queue' = Cleared(idx2queue)
    /\ since_clear' = Cleared(since_clear)
    /\ mgr_msg_cnt' = mgr_msg_cnt + 1
    /\ agg_pc' = "eof_flush"
    /\ UNCHANGED <<cfg_vars, quitting, queue, pend_var, eof_left, emitted, raised, replaced, appended, enqueued,
                   io_vars, hist_io>>

\* _publish_msg of the last report returns; stop_subprocess builds the one
\* eof report it is about to put proc_num times.
PutFlush ==
    /\ agg_pc = "eof_flush"
    /\ CanPut
    /\ queue' = Append(queue, pend_msg)
    /\ enqueued' = Append(enqueued, pend_msg)
    /\ pend_msg' = EofMsg(mgr_msg_cnt)
    /\ mgr_msg_cnt' = mgr_msg_cnt + 1
    /\ eof_left' = EofCopies
    /\ agg_pc' = IF EofCopies > 0 THEN "eof_put" ELSE "join"
    /\ UNCHANGED <<cfg_vars, quitting, idx2queue, var_cnt, pend_var, emitted, raised, replaced, appended,
                   since_clear, io_vars, hist_io>>

\* One self.queue.put(msg) of stop_subprocess's loop.
PutEof ==
    /\ agg_pc = "eof_put"
    /\ CanPut
    /\ queue' = Append(queue, pend_msg)
    /\ enqueued' = Append(enqueued, pend_msg)
    /\ eof_left' = eof_left - 1
    /\ IF eof_left = 1
       THEN agg_pc' = "join" /\ pend_msg' = NoMsg
       ELSE UNCHANGED <<agg_pc, pend_msg>>
    /\ UNCHANGED <<cfg_vars, quitting, idx2queue, var_cnt, mgr_msg_cnt, pend_var, emitted, raised, replaced,
                   appended, since_clear, io_vars, hist_io>>

\* wait_subprocess: p.join() returns for every worker process.
Join ==
    /\ agg_pc = "join"
    /\ \A w \in Procs : stopped[w]
    /\ agg_pc' = "done"
    /\ UNCHANGED <<cfg_vars, quitting, idx2queue, var_cnt, mgr_msg_cnt, queue, pend_msg, pend_var,
                   eof_left, hist_mgr, io_vars, hist_io>>

\* IoLoop.stop: the worker stops the event loop of its own process when the
\* tick decides so (`now`); the other workers run in processes of their own.
stop_every(w, now) == [v \in AllProcs |-> stopped[v] \/ now]
stop(w, now) == [stopped EXCEPT ![w] = now]

\* ----------------------------------------------------------------- worker
\* if self.wrong_msg_cnt > self.wrong_msg_allow
Exceeded_atlimit(w) == wrong_msg_cnt[w] >= WrongLimit
Exceeded(w) == wrong_msg_cnt[w] > WrongLimit

\* if self.ok_cnt >= self.msg_cnt
EnoughOks(w) == ok_cnt[w] >= msg_cnt[w]

\* The branch a tick takes: the handshake while shake_flag is set, the
\* wait for the OKs once eof_flag is set, the queue otherwise.
Shaking_never(w) == FALSE
Shaking(w) == shake_flag[w]
Draining_never(w) == FALSE
Draining(w) == eof_flag[w]

\* IoLoop.__call__, from the event loop: the whole tick, or the tick up to
\* queue.get() when the queue was seen non-empty.  A tick that finds the
\* mutex set returns at once; the mutex is set at the start of a tick and
\* reset by its last statement.
Tick(w) ==
    /\ w \in Procs
    /\ ~stopped[w]
    /\ io_pc[w] = "loop"
    /\ ~mutex[w]
    /\ IF Shaking(w)
       THEN /\ shake_sent[w] < MaxShake \/ Exceeded(w)
            /\ inflight' = [inflight EXCEPT ![w] = @ + 1]
            /\ shake_sent' = [shake_sent EXCEPT ![w] = @ + 1]
            /\ stopped' = stop(w, Exceeded(w))
            /\ UNCHANGED <<io_pc, mutex>>
       ELSE IF Draining(w)
       THEN /\ stopped' = stop(w, EnoughOks(w) \/ Exceeded(w))
            /\ UNCHANGED <<inflight, shake_sent, io_pc, mutex>>
       ELSE IF queue # <<>>
       THEN /\ io_pc' = [io_pc EXCEPT ![w] = "get"]
            /\ mutex' = [mutex EXCEPT ![w] = TRUE]
            /\ UNCHANGED <<inflight, shake_sent, stopped>>
       ELSE /\ stopped' = stop(w, Exceeded(w))
            /\ UNCHANGED <<inflight, shake_sent, io_pc, mutex>>
    /\ UNCHANGED <<cfg_vars, quitting, mgr_vars, queue, hist_mgr, shake_flag, wrong_msg_cnt,
                   msg_cnt, ok_cnt, eof_flag, ok_recv, dequeued, published>>

\* queue.get(): the report handed out and what the queue keeps.
Remaining_peek(q) == q
Remaining(q) == Tail(q)

\* json.dumps(msg_dict): the report is made of strings and numbers except
\* for the values and primary values of its samples, which are whatever the
\* traced program held; only a report that carries samples can fail to
\* serialize.
DumpsOutcomes(m) == IF m.data # <<>> /\ ~HasEof(m) THEN BOOLEAN ELSE {TRUE}

\* self.write.pub(self.topic, msg, self.callback_rec), with its history.
Pub_front(sent, n) == <<n>> \o sent
Pub(sent, n) == Append(sent, n)

\* The rest of the tick: queue.get() returns a report, it is published and
\* counted, the failure count is tested and the mutex reset; or json.dumps
\* raises and the tick ends there.
TickGet(w) ==
    /\ w \in Procs
    /\ io_pc[w] = "get"
    /\ queue # <<>>
    /\ LET msg_dict == Head(queue)
       IN /\ queue' = Remaining(queue)
          /\ eof_flag' = [eof_flag EXCEPT ![w] = @ \/ HasEof(msg_dict)]
          /\ dequeued' = [dequeued EXCEPT ![w] = Append(@, msg_dict.index)]
          /\ \E dumped \in DumpsOutcomes(msg_dict) :
                 IF dumped
                 THEN /\ published' = [published EXCEPT ![w] = Pub(@, msg_dict.index)]
                      /\ inflight' = [inflight EXCEPT ![w] = @ + 1]
                      /\ msg_cnt' = [msg_cnt EXCEPT ![w] = @ + 1]
                      /\ stopped' = stop(w, Exceeded(w))
                      /\ mutex' = [mutex EXCEPT ![w] = FALSE]
                 ELSE UNCHANGED <<published, inflight, msg_cnt, stopped, mutex>>
    /\ io_pc' = [io_pc EXCEPT ![w] = "loop"]
    /\ UNCHANGED <<cfg_vars, quitting, mgr_vars, hist_mgr, shake_flag, wrong_msg_cnt, ok_cnt,
                   shake_sent, ok_recv>>

\* A callback that counts every OK, the one that ends the handshake
\* included.
callback_rec_counting(w, ok) ==
    /\ w \in Procs
    /\ ~stopped[w]
    /\ io_pc[w] = "loop"
    /\ inflight[w] > 0
    /\ inflight' = [inflight EXCEPT ![w] = @ - 1]
    /\ IF ok
       THEN /\ shake_flag' = [shake_flag EXCEPT ![w] = FALSE]
            /\ ok_cnt' = [ok_cnt EXCEPT ![w] = @ + 1]
            /\ ok_recv' = [ok_recv EXCEPT ![w] = @ + 1]
            /\ UNCHANGED wrong_msg_cnt
       ELSE /\ wrong_msg_cnt' = [wrong_msg_cnt EXCEPT ![w] = @ + 1]
            /\ UNCHANGED <<shake_flag, ok_cnt, ok_recv>>
    /\ UNCHANGED <<cfg_vars, quitting, mgr_vars, queue, hist_mgr, msg_cnt, eof_flag, stopped,
                   mutex, io_pc, shake_sent, dequeued, published>>

\* IoLoop.callback_rec: the broker's response to one publish of worker w,
\* delivered by the event loop between two ticks.
callback_rec(w, ok) ==
    /\ w \in Procs
    /\ ~stopped[w]
    /\ io_pc[w] = "loop"
    /\ inflight[w] > 0
    /\ inflight' = [inflight EXCEPT ![w] = @ - 1]
    /\ IF ok
       THEN /\ IF shake_flag[w]
               THEN /\ shake_flag' = [shake_flag EXCEPT ![w] = FALSE]
                    /\ UNCHANGED ok_cnt
               ELSE /\ ok_cnt' = [ok_cnt EXCEPT ![w] = @ + 1]
                    /\ UNCHANGED shake_flag
            /\ ok_recv' = [ok_recv EXCEPT ![w] = @ + 1]
            /\ UNCHANGED wrong_msg_cnt
       ELSE /\ wrong_msg_cnt' = [wrong_msg_cnt EXCEPT ![w] = @ + 1]
            /\ UNCHANGED <<shake_flag, ok_cnt, ok_recv>>
    /\ UNCHANGED <<cfg_vars, quitting, mgr_vars, queue, hist_mgr, msg_cnt, eof_flag, stopped,
                   mutex, io_pc, shake_sent, dequeued, published>>

CallbackOk(w) == callback_rec(w, TRUE)
CallbackFail(w) == callback_rec(w, FALSE)

\* ---------------------------------------------------------- specification
Next ==
    \/ \E i \in Indices \cup BadIndices, k \in Keys \cup {NoKey} : Ingest(i, k)
    \/ PutCommon
    \/ SignalEOF
    \/ PutFlush
    \/ PutEof
    \/ Join
    \/ \E w \in AllProcs : Tick(w)
    \/ \E w \in AllProcs : TickGet(w)
    \/ \E w \in AllProcs : CallbackOk(w)
    \/ \E w \in AllProcs : CallbackFail(w)

Spec == Init /\ [][Next]_vars
SpecIo == InitIo /\ [][Next]_vars
SpecDuo == InitDuo /\ [][Next]_vars

\* Scheduling: a worker's event loop keeps firing its periodic callback and
\* delivers every response the broker sends; a put or a join that can
\* return does return.  The instrumentation source owes nothing: no
\* fairness on Ingest or SignalEOF.
Fairness ==
    /\ \A w \in AllProcs : WF_vars(Tick(w))
    /\ \A w \in AllProcs : WF_vars(TickGet(w))
    /\ \A w \in AllProcs : WF_vars(CallbackOk(w) \/ CallbackFail(w))
    /\ WF_vars(PutCommon)
    /\ WF_vars(PutFlush)
    /\ WF_vars(PutEof)
    /\ WF_vars(Join)

FairSpecIo == SpecIo /\ Fairness
FairSpecDuo == SpecDuo /\ Fairness

\* ------------------------------------------------------------------ claims
\* Publishes a worker has sent to the broker, handshakes included.
Attempts(w) == shake_sent[w] + msg_cnt[w]

\* End-of-stream reports put on the queue so far.
EofEnqueued == Cardinality({k \in 1..Len(enqueued) : HasEof(enqueued[k])})

\* signalEndOfStream has been called and has not returned.
ShuttingDown == agg_pc \in {"eof_flush", "eof_put", "join"}

\* C1: in every reachable state of every worker the acknowledged count
\* (ok_cnt) is at most the published count (msg_cnt), whatever the
\* interleaving of ticks and callbacks, handshake messages sent before the
\* first handshake acknowledgment included.
C1_AckedAtMostPublished == \A w \in Procs : ok_cnt[w] <= msg_cnt[w]

\* C2: signalEndOfStream enqueues exactly proc_num end-of-stream reports:
\* never more, all of them once it has gone on to join the workers, and
\* while it is still putting them the ones put and the ones left add up to
\* proc_num; also when no sample was ever ingested.
C2_OneEofPerWorker ==
    /\ EofEnqueued <= proc_num
    /\ agg_pc \in {"ready", "put", "eof_flush"} => EofEnqueued = 0
    /\ agg_pc = "eof_put" => EofEnqueued + eof_left = proc_num /\ eof_left > 0
    /\ agg_pc \in {"join", "done"} => EofEnqueued = proc_num

\* C2 witness: two workers, no sample ever ingested, and signalEndOfStream
\* has put its two sentinels and returned.
C2_Witness ==
    /\ agg_pc = "done"
    /\ proc_num = 2
    /\ emitted = 0
    /\ EofEnqueued = 2

\* C3: under fair scheduling, with every publish answered, a worker that
\* has dequeued the end-of-stream sentinel eventually stops, also when some
\* of its publishes failed without exceeding the failure budget.
C3_DrainingWorkerStops == \A w \in AllProcs : (w \in Procs /\ eof_flag[w]) ~> stopped[w]

\* C4: signalEndOfStream eventually returns once every worker has stopped,
\* with a fatal status or not: neither its puts nor its join block forever.
C4_ShutdownReturns ==
    (ShuttingDown /\ \A w \in Procs : stopped[w]) ~> (agg_pc = "done")

\* C5: a worker that the broker has answered with nothing but failures has,
\* when it stops, made exactly WrongLimit + 1 publish attempts (handshakes
\* included), and it has not stopped on the drain condition.
C5_StopsAfterBudgetPlusOne ==
    \A w \in Procs :
        (stopped[w] /\ ok_recv[w] = 0) =>
            /\ Attempts(w) = WrongLimit + 1
            /\ Exceeded(w)

\* C6: once a worker's failure count exceeds the budget it stops at once:
\* from then on it sends no publish and no handshake and takes nothing from
\* the queue.
C6_NoWorkAfterBudgetExceeded ==
    [][\A w \in Procs :
          (Exceeded(w) /\ ~stopped[w]) =>
              /\ shake_sent'[w] = shake_sent[w]
              /\ msg_cnt'[w] = msg_cnt[w]
              /\ dequeued'[w] = dequeued[w]
              /\ io_pc'[w] = "loop"]_vars

\* Reports the workers have taken from the queue.
RECURSIVE TakenBy(_)
TakenBy(W) ==
    IF W = {} THEN 0
    ELSE LET w == CHOOSE x \in W : TRUE
         IN Len(dequeued[w]) + TakenBy(W \ {w})

\* C7: a worker that has not received a successful handshake
\* acknowledgment has published no report and taken none from the queue
\* (it is not even waiting in queue.get); the reports enqueued meanwhile
\* are all still in the queue or were taken by a worker, none is lost.
C7_HandshakeBeforeData ==
    /\ \A w \in Procs :
           (shake_flag[w] \/ ok_recv[w] = 0) =>
               /\ msg_cnt[w] = 0
               /\ dequeued[w] = <<>>
               /\ io_pc[w] = "loop"
    /\ Len(enqueued) = Len(queue) + TakenBy(Procs)

\* C7 witness: a worker has sent its handshake and is still waiting for the
\* acknowledgment while reports wait in the queue, untouched by it.
C7_Witness ==
    \E w \in Procs :
        /\ shake_flag[w]
        /\ shake_sent[w] >= 1
        /\ ~stopped[w]
        /\ Len(queue) = QSize
        /\ dequeued[w] = <<>>

\* No two neighbours of a slot have the same primary key.
NoEqualNeighbours(q) == \A k \in 1..(Len(q) - 1) : q[k].primary # q[k + 1].primary

\* C8: a sample ingested into a non-empty slot whose last sample has the
\* same primary key replaces that last sample and leaves the slot's length
\* unchanged; any other sample is appended; so no slot ever holds two
\* neighbours with equal primary keys.
C8_RetentionRule ==
    [][\A i \in cpoints :
          /\ NoEqualNeighbours(idx2queue'[i])
          /\ appended'[i] # appended[i] =>
                LET new == Last(appended'[i])
                    old == idx2queue[i]
                    now == idx2queue'[i]
                IN IF Len(old) > 0 /\ Last(old).primary = new.primary
                   THEN /\ Len(now) = Len(old)
                        /\ Front(now) = Front(old)
                        /\ Last(now) = new
                   ELSE /\ Front(now) = old
                        /\ Last(now) = new]_vars

\* C8 witness: a slot has taken three samples and kept two of them, the
\* second of which replaced the first.
C8_Witness ==
    \E i \in cpoints :
        /\ Len(since_clear[i]) = 3
        /\ Len(idx2queue[i]) = 2
        /\ idx2queue[i][1] = since_clear[i][2]
        /\ since_clear[i][1].primary = since_clear[i][2].primary

\* The last sample of every maximal run of equal primary keys of s.
RECURSIVE LastOfRuns(_)
LastOfRuns(s) ==
    IF Len(s) <= 1 THEN s
    ELSE IF s[1].primary = s[2].primary
         THEN LastOfRuns(Tail(s))
         ELSE <<s[1]>> \o LastOfRuns(Tail(s))

\* The samples a report carries for index i.
RECURSIVE ValuesIn(_, _)
ValuesIn(data, i) ==
    IF data = <<>> THEN <<>>
    ELSE (IF Head(data) # EofMark /\ Head(data).index = i
          THEN Head(data).value ELSE <<>>) \o ValuesIn(Tail(data), i)

RECURSIVE ValuesOf(_, _)
ValuesOf(reports, i) ==
    IF reports = <<>> THEN <<>>
    ELSE ValuesIn(Head(reports).data, i) \o ValuesOf(Tail(reports), i)

\* Every sample of index i the aggregator retains: in the reports it has
\* enqueued, in the report it is about to put, and in the slot.
Retained(i) ==
    ValuesOf(enqueued, i)
        \o (IF agg_pc \in {"put", "eof_flush"} THEN ValuesIn(pend_msg.data, i) ELSE <<>>)
        \o [k \in 1..Len(idx2queue[i]) |-> MsgGetV(idx2queue[i][k])]

GetVs(s) == [k \in 1..Len(s) |-> MsgGetV(s[k])]

\* C9 as stated: of all the samples ingested for one index, the aggregator
\* retains exactly the last sample of every maximal run of equal keys.
C9_OneRetainedPerRun ==
    \A i \in cpoints : Retained(i) = GetVs(LastOfRuns(appended[i]))

\* C9 as amended: of the samples ingested for one index since its slot was
\* last cleared by a flush, the slot retains exactly the last sample of
\* every maximal run of equal keys.
C9_OneRetainedPerRunSinceFlush ==
    \A i \in cpoints : idx2queue[i] = LastOfRuns(since_clear[i])

\* C9 witness: since the last flush a slot took a run of two equal keys and
\* then another key, and holds the second sample and the third.
C9_Witness ==
    \E i \in cpoints :
        /\ Len(since_clear[i]) = 3
        /\ since_clear[i][1].primary = since_clear[i][2].primary
        /\ since_clear[i][2].primary # since_clear[i][3].primary
        /\ idx2queue[i] = <<since_clear[i][2], since_clear[i][3]>>

KeysOf(s) == [k \in 1..Len(s) |-> s[k].primary]

\* The batchLimit=3 scenario: three samples for index 0 with the primary
\* keys a, a, b have been ingested, none raised, and the call of the third
\* has returned.
ScenarioAAB ==
    /\ var_limit = 3
    /\ 0 \in cpoints
    /\ emitted = 3
    /\ raised = 0
    /\ agg_pc = "ready"
    /\ KeysOf(appended[0]) = <<"a", "a", "b">>

\* C11: with batch limit 3, after the samples a, a, b for index 0 exactly
\* one report has been enqueued, and its entry for index 0 holds exactly two
\* values: the second a-sample followed by the b-sample.
C11_ScenarioReport ==
    ScenarioAAB =>
        /\ Len(enqueued) = 1
        /\ enqueued[1].data =
               <<[index |-> 0, value |-> <<MsgGetV(appended[0][2]), MsgGetV(appended[0][3])>>]>>

\* C12: one worker, a broker that has acknowledged everything (no failure
\* was delivered), batch limit 3, the samples a, a, b for index 0 and then
\* the end of the stream: when the worker has stopped it has counted two
\* published reports, two acknowledgments and no failure.
C12_ScenarioCounters ==
    ( /\ proc_num = 1
      /\ var_limit = 3
      /\ emitted = 3
      /\ raised = 0
      /\ KeysOf(appended[0]) = <<"a", "a", "b">>
      /\ eof_flag[1]
      /\ stopped[1]
      /\ wrong_msg_cnt[1] = 0 ) =>
        /\ msg_cnt[1] = 2
        /\ ok_cnt[1] = 2
        /\ wrong_msg_cnt[1] = 0

\* The reports enqueued before position k that carry the end-of-stream
\* marker.
EofBefore(k) == {j \in 1..(k - 1) : HasEof(enqueued[j])}

\* C13: the end of the stream is handled in the order final flush, then
\* sentinels, then join: in enqueue order no data report follows an
\* end-of-stream report, the report just before the first sentinel is the
\* final flush (built by the call that built the sentinel), and from the
\* moment the sentinels are being put every slot is empty; the join is only
\* reached with every sentinel enqueued.
C13_FlushThenEofThenJoin ==
    /\ \A k \in 1..Len(enqueued) :
           ~HasEof(enqueued[k]) => EofBefore(k) = {}
    /\ \A k \in 1..Len(enqueued) :
           (HasEof(enqueued[k]) /\ EofBefore(k) = {}) =>
               /\ k > 1
               /\ enqueued[k - 1].type = "varcol_message"
               /\ enqueued[k - 1].index + 1 = enqueued[k].index
    /\ agg_pc \in {"eof_put", "join", "done"} =>
           \A i \in cpoints : idx2queue[i] = <<>>
    /\ agg_pc \in {"join", "done"} => EofEnqueued = proc_num
    /\ agg_pc \notin {"eof_put", "join", "done"} => EofEnqueued = 0

\* C13 witness: a data report that carries samples, the final flush and a
\* sentinel have been enqueued in this order.
C13_Witness ==
    /\ Len(enqueued) >= 3
    /\ enqueued[1].data # <<>>
    /\ ~HasEof(enqueued[1])
    /\ ~HasEof(enqueued[2])
    /\ HasEof(enqueued[3])

\* The report with sequence number n is an end-of-stream report.
IsEofIndex(n) == \E k \in 1..Len(enqueued) : enqueued[k].index = n /\ HasEof(enqueued[k])

\* The positions in what worker w has dequeued that hold a sentinel.
EofTaken(w) == {k \in 1..Len(dequeued[w]) : IsEofIndex(dequeued[w][k])}

\* C14: the sentinel is the last report a worker dequeues: a worker that has
\* dequeued a sentinel never dequeues again, so a worker has dequeued at
\* most one sentinel and nothing after it, and once every one of the
\* workers has stopped without exceeding its failure limit each has
\* dequeued exactly one.
C14_EofIsLastDequeued ==
    [][ /\ \A w \in Procs : eof_flag[w] => dequeued'[w] = dequeued[w]
        /\ \A w \in Procs : EofTaken(w) \subseteq {Len(dequeued[w])}
        /\ \A w \in Procs : eof_flag[w] <=> EofTaken(w) # {}
        /\ (\A w \in Procs : stopped[w] /\ ~Exceeded(w)) =>
               \A w \in Procs : Cardinality(EofTaken(w)) = 1 ]_vars

\* C14 witness: two workers, each has dequeued data reports and then one
\* sentinel, and the queue is empty.
C14_Witness ==
    /\ proc_num = 2
    /\ queue = <<>>
    /\ \A w \in Procs : Len(dequeued[w]) >= 2 /\ EofTaken(w) = {Len(dequeued[w])}

\* The aggregator is inside a put on the shared queue.
Putting == agg_pc \in {"put", "eof_flush", "eof_put"}

\* C15: the queue never holds more reports than its capacity QSize; while
\* the aggregator is putting on a full queue it does nothing (it waits for a
\* dequeue); the queue changes only by a put, which appends the report at
\* the back, or by a dequeue, which hands the report at the front to one
\* worker; so the queue always holds exactly the enqueued reports not yet
\* dequeued, in enqueue order, and none is dropped.
C15_BoundedFifoQueue ==
    [][ /\ Len(queue) <= QSize /\ Len(queue') <= QSize
        /\ (Putting /\ Len(queue) = QSize) =>
               /\ mgr_vars' = mgr_vars
               /\ enqueued' = enqueued
               /\ Len(queue') <= Len(queue)
        /\ \/ /\ queue' = queue
              /\ enqueued' = enqueued
              /\ dequeued' = dequeued
           \/ /\ Len(enqueued') = Len(enqueued) + 1
              /\ queue' = Append(queue, Last(enqueued'))
              /\ SubSeq(enqueued', 1, Len(enqueued)) = enqueued
              /\ dequeued' = dequeued
           \/ /\ queue # <<>>
              /\ queue' = Tail(queue)
              /\ enqueued' = enqueued
              /\ \E w \in Procs :
                     /\ dequeued'[w] = Append(dequeued[w], Head(queue).index)
                     /\ \A v \in Procs \ {w} : dequeued'[v] = dequeued[v]
        /\ LET taken == Len(enqueued) - Len(queue)
           IN /\ taken = TakenBy(Procs)
              /\ queue = SubSeq(enqueued, taken + 1, Len(enqueued)) ]_vars

\* C15 witness: the queue is full again, with the aggregator in its next
\* put, after a put that had to wait for a dequeue: one report more than
\* the capacity has been enqueued.
C15_Witness ==
    /\ Len(queue) = QSize
    /\ Len(enqueued) = QSize + 1
    /\ Putting

\* C16 as stated: the sequence numbers of the enqueued reports start at 0
\* and increase from each report to the next in enqueue order, the
\* end-of-stream reports included.
C16_SequenceIncreases ==
    /\ enqueued # <<>> => enqueued[1].index = 0
    /\ \A j, k \in 1..Len(enqueued) :
           j < k => enqueued[j].index < enqueued[k].index

\* C16, amended: the sequence numbers of the enqueued reports start at 0
\* and never decrease in enqueue order; they increase from each report to
\* the next across the automatic flushes, the final flush and the first
\* end-of-stream report, and two reports carry the same number only if both
\* are end-of-stream reports (the sentinels are one report put once per
\* worker).
C16_SequenceIncreasesUpToEof ==
    /\ enqueued # <<>> => enqueued[1].index = 0
    /\ \A j, k \in 1..Len(enqueued) :
           j < k =>
               /\ enqueued[j].index <= enqueued[k].index
               /\ enqueued[j].index = enqueued[k].index <=>
                      (HasEof(enqueued[j]) /\ HasEof(enqueued[k]))

\* C16 witness: two workers; an automatic flush, the final flush and both
\* sentinels have been enqueued.
C16_Witness ==
    /\ proc_num = 2
    /\ Len(enqueued) = 4
    /\ ~HasEof(enqueued[2])
    /\ HasEof(enqueued[3])
    /\ HasEof(enqueued[4])

\* C17: an error while ingesting one sample drops only that sample: the
\* step in which a sample raises leaves the slots, the sample counter and
\* the queue as they were, enqueues nothing, and leaves ingestion enabled
\* for the samples that follow.
C17_ErrorDropsOnlyThatSample ==
    [][ raised' > raised =>
            /\ idx2queue' = idx2queue
            /\ var_cnt' = var_cnt
            /\ queue' = queue
            /\ ~quitting' ]_vars

\* The WorkerState of worker v.
WorkerState(v) ==
    <<shake_flag[v], wrong_msg_cnt[v], msg_cnt[v], ok_cnt[v], eof_flag[v], stopped[v],
      mutex[v], io_pc[v], inflight[v]>>

\* Worker w has stopped because its failures exceeded the limit.
Breached(w) == stopped[w] /\ Exceeded(w)

\* C18: a failure-limit breach in one worker stops only that worker: the
\* step that stops it changes no other worker's state and nothing of the
\* aggregator; afterwards a sibling that is running can still take its
\* report from the queue and the aggregator can still ingest; and a
\* worker that stopped without a breach of its own did so after dequeuing
\* its own sentinel.
C18_BreachStopsOnlyThatWorker ==
    [][ /\ \A w \in Procs :
               (~stopped[w] /\ stopped'[w] /\ Exceeded(w)) =>
                   /\ \A v \in AllProcs \ {w} : WorkerState(v)' = WorkerState(v)
                   /\ mgr_vars' = mgr_vars
                   /\ quitting' = quitting
        /\ \A w, v \in Procs :
               (Breached(w) /\ ~stopped[v] /\ io_pc[v] = "get" /\ queue # <<>>) =>
                   ENABLED TickGet(v)
        /\ \A w, v \in Procs :
               (Breached(w) /\ ~stopped[v] /\ io_pc[v] = "loop" /\ ~mutex[v] /\ ~shake_flag[v]) =>
                   ENABLED Tick(v)
        /\ \A w \in Procs :
               (Breached(w) /\ agg_pc = "ready" /\ ~quitting /\ emitted < MaxSamples) =>
                   ENABLED Ingest(0, "a")
        /\ \A w \in Procs : (Breached(w) /\ agg_pc = "ready") => ENABLED SignalEOF
        /\ \A v \in Procs :
               (stopped[v] /\ ~Exceeded(v)) => EofTaken(v) # {} ]_vars

\* C18 witness: two workers; worker 1 has stopped on a breach, worker 2 is
\* running and about to take a report from the queue, and the aggregator is
\* ready for its next sample.
C18_Witness ==
    /\ proc_num = 2
    /\ Breached(1)
    /\ ~stopped[2]
    /\ io_pc[2] = "get"
    /\ queue # <<>>
    /\ agg_pc = "ready"
    /\ ~quitting

\* The publishes of reports by worker w that have no response yet: the
\* responses come back in the order of the publishes and the handshake
\* messages are all sent before the first report, so the publishes without
\* a response are the latest ones.
Unanswered(w) == IF inflight[w] < msg_cnt[w] THEN inflight[w] ELSE msg_cnt[w]

\* C19: a worker that has stopped without exceeding its failure limit has
\* no published report still unacknowledged.
C19_StoppedMeansAllAcked ==
    \A w \in Procs : (stopped[w] /\ ~Exceeded(w)) => Unanswered(w) = 0

\* C20: the handshake is sent once and then awaited: a step that sends a
\* handshake message is taken only while the handshake is not done and no
\* earlier handshake message is unanswered.
C20_OneHandshakeAtATime ==
    [][ \A w \in Procs :
            shake_sent'[w] > shake_sent[w] => (shake_flag[w] /\ inflight[w] = 0) ]_vars

\* The samples a sequence of get_v values holds.
Holds(values, v) == \E k \in 1..Len(values) : values[k] = v

\* C21: the retention rule is applied to the sample's slot before the
\* counter is tested: when the call that made an automatic flush returns,
\* the report it enqueued holds the sample that triggered the flush and
\* every slot is empty.
C21_PushBeforeLimitTest ==
    [][ (agg_pc = "put" /\ agg_pc' = "ready" /\ raised' = raised) =>
            /\ Holds(ValuesIn(Last(enqueued').data, pend_var.idx), MsgGetV(pend_var))
            /\ \A i \in cpoints : idx2queue'[i] = <<>> ]_vars

\* The entries of a report that belong to index i.
EntriesOf(data, i) == {k \in 1..Len(data) : data[k].index = i}

\* C22: the step that builds a report (an automatic flush or the final
\* one) gives it one entry for every slot that holds samples and none for
\* an empty slot, each entry carrying its slot's index and the slot's
\* retained samples in their order; after the step every slot is empty and
\* the set of slots is the same.
C22_FlushSnapshotsAndClears ==
    [][ (agg_pc = "ready" /\ agg_pc' \in {"put", "eof_flush"}) =>
            /\ pend_msg'.type = "varcol_message"
            /\ \A i \in DOMAIN idx2queue :
                   IF Len(idx2queue[i]) > 0
                   THEN \E k \in 1..Len(pend_msg'.data) :
                            /\ EntriesOf(pend_msg'.data, i) = {k}
                            /\ pend_msg'.data[k].value = GetVs(idx2queue[i])
                   ELSE EntriesOf(pend_msg'.data, i) = {}
            /\ \A k \in 1..Len(pend_msg'.data) : pend_msg'.data[k].index \in DOMAIN idx2queue
            /\ DOMAIN idx2queue' = DOMAIN idx2queue
            /\ \A i \in DOMAIN idx2queue : idx2queue'[i] = <<>> ]_vars

\* C22 witness: two slots, a final flush whose report has one entry with
\* two retained samples, the other slot having been empty.
C22_Witness ==
    /\ cpoints = Indices
    /\ agg_pc = "eof_flush"
    /\ Len(pend_msg.data) = 1
    /\ Len(pend_msg.data[1].value) = 2
    /\ \A i \in cpoints : idx2queue[i] = <<>>

\* C23: the step in which a worker dequeues the end-of-stream report sets
\* its eof_flag and does not treat the report as data: nothing is published
\* for it and the published count stays as it was.
C23_SentinelNotPublished ==
    [][ \A w \in Procs :
            (dequeued'[w] # dequeued[w] /\ HasEof(Head(queue))) =>
                /\ eof_flag'[w]
                /\ inflight'[w] = inflight[w]
                /\ msg_cnt'[w] = msg_cnt[w] ]_vars

\* C24: a response callback changes one part of the worker's state: an OK
\* while the handshake is pending clears shake_flag and leaves both
\* counters, an OK after the handshake adds one to ok_cnt only, and any
\* other response adds one to wrong_msg_cnt only and leaves shake_flag;
\* the rest of the worker's state is untouched by a callback.
C24_CallbackChangesOnePart ==
    [][ \A w \in Procs :
            inflight'[w] < inflight[w] =>
                /\ IF ok_recv'[w] > ok_recv[w]
                   THEN IF shake_flag[w]
                        THEN /\ ~shake_flag'[w]
                             /\ ok_cnt'[w] = ok_cnt[w]
                             /\ wrong_msg_cnt'[w] = wrong_msg_cnt[w]
                        ELSE /\ ok_cnt'[w] = ok_cnt[w] + 1
                             /\ ~shake_flag'[w]
                             /\ wrong_msg_cnt'[w] = wrong_msg_cnt[w]
                   ELSE /\ wrong_msg_cnt'[w] = wrong_msg_cnt[w] + 1
                        /\ ok_cnt'[w] = ok_cnt[w]
                        /\ shake_flag'[w] = shake_flag[w]
                /\ msg_cnt'[w] = msg_cnt[w]
                /\ eof_flag'[w] = eof_flag[w]
                /\ stopped'[w] = stopped[w] ]_vars

\* C24 witness: a worker has received a failure, the OK that ended its
\* handshake and an OK after it.
C24_Witness ==
    \E w \in Procs :
        /\ ~shake_flag[w]
        /\ ok_cnt[w] >= 1
        /\ wrong_msg_cnt[w] >= 1

\* C25: the failure limit is the largest tolerated count: a step that
\* stops a worker whose failure count is at most WrongLimit is a stop on
\* the drain condition (eof_flag set and enough OKs), never a stop on
\* account of failures; and a stopped worker either has more failures than
\* WrongLimit or has seen the end of the stream.
C25_StopOnlyAboveLimit ==
    [][ /\ \A w \in Procs :
               (~stopped[w] /\ stopped'[w] /\ wrong_msg_cnt[w] <= WrongLimit) =>
                   (eof_flag[w] /\ ok_cnt[w] >= msg_cnt[w])
        /\ \A w \in Procs :
               stopped[w] => (wrong_msg_cnt[w] > WrongLimit \/ eof_flag[w]) ]_vars

\* C25 witness: a worker with exactly WrongLimit failures kept running
\* to the end of the stream and stopped on the drain condition.
C25_Witness ==
    \E w \in Procs :
        /\ stopped[w]
        /\ wrong_msg_cnt[w] = WrongLimit
        /\ eof_flag[w]
        /\ msg_cnt[w] >= 2

\* A tick of worker w ended in an error with the mutex still set.
Stuck(w) == mutex[w] /\ io_pc[w] = "loop"

\* C26: a worker publishes the reports in the order in which it dequeued
\* them: the sequence of its publishes is the sequence of its dequeues
\* (less the last one, when that report failed to serialize and ended the
\* tick); with one worker the k-th publish is the k-th report the
\* aggregator enqueued.
C26_PublishInDequeueOrder ==
    /\ \A w \in Procs :
           published[w] = IF Stuck(w) THEN Front(dequeued[w]) ELSE dequeued[w]
    /\ proc_num = 1 =>
           \A k \in 1..Len(published[1]) : published[1][k] = enqueued[k].index

\* C26 witness: the one worker has published three reports, the sentinel
\* last.
C26_Witness ==
    /\ proc_num = 1
    /\ Len(published[1]) >= 3
    /\ IsEofIndex(Last(published[1]))

\* The sequence numbers of the reports at the positions 1..n of the enqueue
\* history, as a bag.
RECURSIVE IndexBag(_, _)
IndexBag(s, n) ==
    IF n = 0 THEN EmptyBag ELSE IndexBag(s, n - 1) (+) SetToBag({s[n].index})

\* The sequence numbers in a sequence, as a bag.
RECURSIVE SeqBag(_)
SeqBag(s) == IF s = <<>> THEN EmptyBag ELSE SetToBag({Head(s)}) (+) SeqBag(Tail(s))

\* What the workers of W have dequeued, as a bag of sequence numbers.
RECURSIVE DequeuedBag(_)
DequeuedBag(W) ==
    IF W = {} THEN EmptyBag
    ELSE LET w == CHOOSE x \in W : TRUE
         IN SeqBag(dequeued[w]) (+) DequeuedBag(W \ {w})

\* C27: a report taken from the queue is published at most once in total:
\* the reports the workers have dequeued are, each once, the reports that
\* left the queue, so no enqueued report is obtained twice; a worker
\* publishes each report it dequeued at most once; and the step that
\* counts a failure publishes nothing.
C27_PublishedAtMostOnce ==
    [][ /\ DequeuedBag(Procs) = IndexBag(enqueued, Len(enqueued) - Len(queue))
        /\ \A w \in Procs : Len(published[w]) <= Len(dequeued[w])
        /\ \A w \in Procs : Len(published[w]) = msg_cnt[w]
        /\ \A w \in Procs :
               wrong_msg_cnt'[w] > wrong_msg_cnt[w] =>
                   /\ published' = published
                   /\ inflight'[w] = inflight[w] - 1
                   /\ shake_sent' = shake_sent ]_vars

\* C27 witness: two workers have each dequeued and published reports, and
\* one of them has had a publish of a report answered by a failure.
C27_Witness ==
    /\ proc_num = 2
    /\ \A w \in Procs : Len(published[w]) >= 1
    /\ \E w \in Procs : ~shake_flag[w] /\ shake_sent[w] = 1 /\ wrong_msg_cnt[w] >= 1

\* How often the value v occurs in a sequence of get_v values.
Occurrences(values, v) == Cardinality({k \in 1..Len(values) : values[k] = v})

\* The reports enqueued before the first end-of-stream report.
BeforeFirstEof ==
    IF \E k \in 1..Len(enqueued) : HasEof(enqueued[k])
    THEN SubSeq(enqueued, 1, (CHOOSE k \in 1..Len(enqueued) :
                                  /\ HasEof(enqueued[k])
                                  /\ \A j \in 1..(k - 1) : ~HasEof(enqueued[j])) - 1)
    ELSE enqueued

\* C28: the aggregator neither loses nor duplicates a sample: at any time
\* a sample pushed to the slot of its index and not overwritten there by a
\* later sample with the same primary value is held exactly once under
\* that index (in an enqueued report, in the report being put, or in the
\* slot), an overwritten sample is held nowhere, and nothing is held under
\* an index that was not pushed to it; once the end of the stream has been
\* flushed, all that is held is in the reports enqueued before the first
\* end-of-stream report.
C28_NoSampleLostOrDuplicated ==
    \A i \in cpoints :
        LET held == Retained(i)
            pushed == GetVs(appended[i])
            flushed == agg_pc \in {"eof_put", "join", "done"}
            early == IF flushed THEN ValuesOf(BeforeFirstEof, i) ELSE <<>>
        IN /\ \A k \in 1..Len(pushed) :
                  Occurrences(held, pushed[k]) =
                      IF appended[i][k].value \in replaced THEN 0 ELSE 1
           /\ \A x \in 1..Len(held) : Occurrences(pushed, held[x]) = 1
           /\ flushed =>
                  /\ held = ValuesOf(enqueued, i)
                  /\ held = early

\* C28 witness: three samples for one index, one of them overwritten in
\* the slot, and the end of the stream flushed and enqueued.
C28_Witness ==
    /\ agg_pc = "done"
    /\ replaced # {}
    /\ \E i \in cpoints : Len(appended[i]) = 3 /\ Len(ValuesOf(enqueued, i)) = 2

\* C29: a worker whose tick saw the queue non-empty obtains a report in
\* that tick without blocking: whenever a worker is at its queue.get()
\* there is a report in the queue for it.
C29_GetNeverBlocks ==
    \A w \in Procs : io_pc[w] = "get" => queue # <<>>

\* C30: the mutex is held only while a tick is executing: whenever a
\* worker is between two ticks its mutex is released, also after a tick
\* that ended in an error while serializing or publishing a report.
C30_MutexReleasedAfterTick ==
    \A w \in Procs : io_pc[w] = "loop" => ~mutex[w]

====
